---------------------------- MODULE Spec2Model ----------------------------
(***************************************************************************)
(* Intelligent Customer Support Bot: the FAQ search engine (backend.py),   *)
(* the two completion providers and the reply resolver (app.py).           *)
(*                                                                         *)
(* Texts are sequences of atoms.  An atom is a whole word ("return"), the  *)
(* blank " " or the punctuation mark "?".  Adjacent word atoms form one    *)
(* longer word, as adjacent letters do in a Python str.  Scores are        *)
(* numbers of ten-thousandths (0.35 is 3500), idf weights are numbers of   *)
(* twentieths.                                                             *)
(***************************************************************************)
EXTENDS Integers, Sequences, FiniteSets, TLC

VARIABLES
  engine,       \* the FAQSearchEngine built at start-up
  last_search,  \* the last call of engine.search and what it returned
  env,          \* the module-level configuration of app.py (.env)
  pc,           \* where the current generate_bot_reply call stands
  args,         \* the arguments of the current generate_bot_reply call
  calls,        \* the collaborators invoked by the current call, in order
  events,       \* the requests and sleeps of the current provider call, in order
  attempt,      \* the loop variable of the Gateway retry loop
  result,       \* what the provider call returned (or that it raised)
  reply,        \* what generate_bot_reply returned
  searching,    \* per concurrent resolution, where its engine.search call stands
  returned,     \* what the engine.search calls of concurrent resolutions returned
  twin          \* the two Gateway templates run side by side on the same outcomes

\* ------------------------------------------------------------------ texts

\* str.lower() on one atom: "Hi" is the only atom with an upper-case letter.
LowerAtom(a) == IF a = "Hi" THEN "hi" ELSE a

\* str.lower()
Lower(t) == [i \in DOMAIN t |-> LowerAtom(t[i])]

IsSpace(a) == a = " "

\* A character matched by \w of the token pattern.
IsWordAtom(a) == a \notin {" ", "?"}

RECURSIVE LStrip(_)
LStrip(t) == IF t # <<>> /\ IsSpace(Head(t)) THEN LStrip(Tail(t)) ELSE t

RECURSIVE RStrip(_)
RStrip(t) ==
  IF t # <<>> /\ IsSpace(t[Len(t)]) THEN RStrip(SubSeq(t, 1, Len(t) - 1)) ELSE t

\* Strip with the text left as it is.
Strip_Omitted(t) == t

\* str.strip(): leading and trailing whitespace removed.
Strip(t) == RStrip(LStrip(t))

\* ---------------------------------------------------------- FAQ catalog

FAQItem(id, question, answer, category) ==
  [id |-> id, question |-> question, answer |-> answer, category |-> category]

\* Python's None in the place of an FAQItem.
None == [id |-> 0, question |-> <<>>, answer |-> <<>>, category |-> "None"]

\* ------------------------------------------------------ TfidfVectorizer

\* stop_words="english", the part of the list the modelled words meet.
StopWords == {<<"the">>, <<"is">>}

RECURSIVE TokenRuns(_, _, _)
TokenRuns(t, cur, acc) ==
  IF t = <<>> THEN (IF cur = <<>> THEN acc ELSE Append(acc, cur))
  ELSE IF IsWordAtom(Head(t)) THEN TokenRuns(Tail(t), Append(cur, Head(t)), acc)
  ELSE TokenRuns(Tail(t), <<>>, IF cur = <<>> THEN acc ELSE Append(acc, cur))

\* Lower-casing, then the token pattern (maximal runs of word characters),
\* then the removal of stop words.
Tokens(t) == SelectSeq(TokenRuns(Lower(t), <<>>, <<>>), LAMBDA w : w \notin StopWords)

\* ngram_range=(1, 2): the unigrams, then the bigrams of the kept tokens.
Terms(t) ==
  LET toks == Tokens(t)
  IN  [i \in 1..Len(toks) |-> <<toks[i]>>]
        \o [i \in 1..(Len(toks) - 1) |-> <<toks[i], toks[i + 1]>>]

TermSet(t) == LET terms == Terms(t) IN {terms[i] : i \in DOMAIN terms}

\* Term frequency: the raw count of a term in a text.
Tf(term, t) == LET terms == Terms(t) IN Cardinality({i \in DOMAIN terms : terms[i] = term})

\* Smoothed inverse document frequency ln((1 + n) / (1 + df)) + 1 in
\* twentieths, rounded to the nearest: row n, column df.
IdfTable ==
  << <<20>>,
     <<28, 20>>,
     <<34, 26, 20>>,
     <<38, 30, 24, 20>>,
     <<42, 34, 28, 24, 20>> >>

Idf(n, df) == IdfTable[n][df]

\* max_df=0.9: a term is kept when its document frequency is at most 0.9 n.
KeptByMaxDf(df, n) == 10 * df <= 9 * n

\* The weight vector of a text over a vocabulary: tf * idf.  The L2
\* normalisation is done in CosineSimilarity, which normalises again anyway.
TfidfVector(vocabulary, idf, t) == [term \in vocabulary |-> Tf(term, t) * idf[term]]

RECURSIVE SqrtSearch(_, _, _)
SqrtSearch(lo, hi, x) ==
  IF lo >= hi THEN lo
  ELSE LET mid == (lo + hi) \div 2
       IN  IF mid * mid >= x THEN SqrtSearch(lo, mid, x) ELSE SqrtSearch(mid + 1, hi, x)

\* The least r with r * r >= x.
CeilSqrt(x) == SqrtSearch(0, IF x < 46340 THEN x ELSE 46340, x)

RECURSIVE SumOver(_, _)
SumOver(f, S) ==
  IF S = {} THEN 0 ELSE LET x == CHOOSE y \in S : TRUE IN f[x] + SumOver(f, S \ {x})

Dot(u, v) == SumOver([term \in DOMAIN u |-> u[term] * v[term]], DOMAIN u)

\* cosine_similarity of two weight vectors, in ten-thousandths; a zero
\* vector has similarity 0 with everything.
CosineSimilarity(u, v) ==
  LET nu == Dot(u, u)
      nv == Dot(v, v)
  IN  IF nu = 0 \/ nv = 0 THEN 0 ELSE (10000 * Dot(u, v)) \div CeilSqrt(nu * nv)

\* ------------------------------------------------------- FAQSearchEngine

threshold_default == 3500

\* FAQSearchEngine.__init__: ok is FALSE when fit_transform raises ValueError
\* (an empty vocabulary, max_df below one document, or no term left after
\* pruning), and then no engine exists.
FAQSearchEngine(faqs, threshold) ==
  LET questions == [i \in DOMAIN faqs |-> faqs[i].question]
      n == Len(questions)
      raw == UNION {TermSet(questions[i]) : i \in DOMAIN questions}
      df == [term \in raw |-> Cardinality({i \in DOMAIN questions : term \in TermSet(questions[i])})]
      vocabulary == {term \in raw : KeptByMaxDf(df[term], n)}
      ok == raw # {} /\ 10 <= 9 * n /\ vocabulary # {}
      idf == [term \in vocabulary |-> Idf(n, df[term])]
  IN  [ok |-> ok,
       faqs |-> faqs,
       threshold |-> threshold,
       questions |-> questions,
       vocabulary |-> IF ok THEN vocabulary ELSE {},
       idf |-> IF ok THEN idf ELSE <<>>,
       question_vectors |->
         IF ok THEN [i \in DOMAIN questions |-> TfidfVector(vocabulary, idf, questions[i])]
         ELSE <<>>]

\* ArgMax with ties going to the last index of the maximum.
ArgMax_LastIndex(sims) ==
  CHOOSE i \in DOMAIN sims :
    /\ \A j \in DOMAIN sims : sims[j] <= sims[i]
    /\ \A j \in DOMAIN sims : j > i => sims[j] < sims[i]

\* np.argmax: the first index of the maximum.
ArgMax(sims) ==
  CHOOSE i \in DOMAIN sims :
    /\ \A j \in DOMAIN sims : sims[j] <= sims[i]
    /\ \A j \in DOMAIN sims : j < i => sims[j] < sims[i]

\* BelowThreshold with a score at the threshold rejected too.
BelowThreshold_Inclusive(best_score, threshold) == best_score <= threshold

BelowThreshold(best_score, threshold) == best_score < threshold

\* FAQSearchEngine.search
search(self, query) ==
  IF Strip(query) = <<>>
  THEN [item |-> None, score |-> 0, transformed |-> FALSE]
  ELSE LET query_vec == TfidfVector(self.vocabulary, self.idf, query)
           sims == [i \in DOMAIN self.question_vectors |->
                      CosineSimilarity(query_vec, self.question_vectors[i])]
           idx == ArgMax(sims)
           best_score == sims[idx]
       IN  IF BelowThreshold(best_score, self.threshold)
           THEN [item |-> None, score |-> best_score, transformed |-> TRUE]
           ELSE [item |-> self.faqs[idx], score |-> best_score, transformed |-> TRUE]

\* ------------------------------------------------------------- the inputs

\* The largest catalog drawn.
MaxFaqs == 3

Q_return_policy == <<"the", " ", "return", " ", "policy", "?">>
Q_track_order == <<"track", " ", "order", "?">>

FaqPool ==
  { FAQItem(1, Q_return_policy, <<"30 days return.">>, "returns"),
    FAQItem(2, Q_track_order, <<"Use the tracking link.">>, "orders"),
    FAQItem(3, Q_return_policy, <<"See the returns page.">>, "returns"),
    FAQItem(4, <<"the", " ", "is">>, <<"It is.">>, "misc"),
    FAQItem(5, <<"hi">>, <<"A greeting.">>, "misc"),
    FAQItem(6, <<"return">>, <<"Returns are free.">>, "returns") }

RECURSIVE CatalogsOfLen(_)
CatalogsOfLen(n) ==
  IF n = 0 THEN {<<>>}
  ELSE {Append(c, f) : c \in CatalogsOfLen(n - 1), f \in FaqPool}

HasUniqueIds(c) == \A i, j \in DOMAIN c : c[i].id = c[j].id => i = j

\* Every catalog of at most MaxFaqs items of the pool, ids unique.
Catalogs == {c \in UNION {CatalogsOfLen(n) : n \in 0..MaxFaqs} : HasUniqueIds(c)}

Thresholds == {0, threshold_default}

Queries ==
  { <<>>, <<" ">>, <<"?">>, <<"xyz">>, <<"return">>, <<"return", " ", "policy">>,
    <<" ", "track">>, <<" ", "Hi", " ">>, <<"hello">> }
    \cup {f.question : f \in FaqPool}

NoSearch == [query |-> <<>>, item |-> None, score |-> 0, transformed |-> FALSE, called |-> FALSE]


\* ------------------------------------------------------- the fixed replies

PromptToType == <<"Please type a message :)">>
GreetingReply == <<"Hi there! How can I help you today?">>
NoMatchReferral ==
  <<"I couldn't find an exact answer.", "\n",
    "Please contact our human support team at support@example.com or +91-9876543210.">>
GatewayReferral ==
  <<"I'm not able to use the AI assistant right now because of usage limits or an error.", "\n",
    "Please contact our human support team at support@example.com or +91-9876543210.">>
RateLimitReferral ==
  <<"AI assistance is temporarily unavailable due to usage limits.", "\n",
    "Please contact our human support team at support@example.com or +91-9876543210.">>
TechnicalIssueReferral ==
  <<"I ran into a technical issue.", "\n",
    "Please contact our human support team at support@example.com or +91-9876543210.">>

\* The suffix of refine_with_openrouter's final return.
GatewayUnavailable(base_answer) ==
  base_answer \o <<"\n\n", "_(AI refinement temporarily unavailable.)_">>

\* The suffix of refine_with_llm's RateLimitError return.
QuotaUnavailable(base_answer) ==
  base_answer \o <<"\n\n", "_(AI refinement temporarily unavailable: quota exceeded.)_">>

Digit(d) == <<"0", "1", "2", "3", "4", "5", "6", "7", "8", "9">>[d + 1]

\* Format2f with the score cut, not rounded, to hundredths.
Format2f_Truncated(score) ==
  LET h == score \div 100
  IN  <<Digit(h \div 100), ".", Digit((h \div 10) % 10), Digit(h % 10)>>

\* f"{score:.2f}": the score rounded to hundredths, two decimals shown.
Format2f(score) ==
  LET h == (score + 50) \div 100
  IN  <<Digit(h \div 100), ".", Digit((h \div 10) % 10), Digit(h % 10)>>

\* The formatted block of generate_bot_reply.
Block(question, answer, score) ==
  <<"**Q:** ">> \o question \o <<"\n", "**A:** ">> \o answer
    \o <<"\n\n", "_Match confidence: ">> \o Format2f(score) \o <<"_">>

\* --------------------------------------------------- decoded JSON bodies

\* A JSON value in the place of a string: absent (or null), a string, or a
\* number.
Absent == [kind |-> "absent", s |-> <<>>]
StrVal(s) == [kind |-> "str", s |-> s]
NumVal == [kind |-> "num", s |-> <<>>]

\* Python truthiness of such a value.
Truthy(v) == (v.kind = "str" /\ v.s # <<>>) \/ v.kind = "num"

\* Python's `a or b`.
Or(a, b) == IF Truthy(a) THEN a ELSE b

Message(kind, content, text) == [kind |-> kind, content |-> content, text |-> text]
Choice(isDict, message) == [isDict |-> isDict, message |-> message]
Body(id, isDict, choices) == [id |-> id, isDict |-> isDict, choices |-> choices]

NoMessage == Message("absent", Absent, Absent)
NoBody == Body("", TRUE, <<>>)

\* The decoded bodies an endpoint answers an HTTP 200 with.
Bodies ==
  { Body("content", TRUE,
         <<Choice(TRUE, Message("dict", StrVal(<<" ", "Happy to help.", " ">>), Absent))>>),
    Body("text", TRUE,
         <<Choice(TRUE, Message("dict", Absent, StrVal(<<"From the text field.", " ">>)))>>),
    Body("empty-message", TRUE, <<Choice(TRUE, Message("dict", Absent, Absent))>>),
    Body("no-message", TRUE, <<Choice(TRUE, NoMessage)>>),
    Body("no-choices", TRUE, <<>>),
    Body("list", FALSE, <<>>),
    Body("string-choice", TRUE, <<Choice(FALSE, NoMessage)>>),
    Body("string-message", TRUE, <<Choice(TRUE, Message("str", Absent, Absent))>>),
    Body("number-content", TRUE, <<Choice(TRUE, Message("dict", NumVal, Absent))>>) }

\* str(data) and str(choices[0]): a text with no blank at either end.
Str(data) == <<"str(", data.id, ")">>
StrChoice(data) == <<"str(", data.id, ".choices[0]", ")">>

\* How a provider call ends: it returns a text, or an exception leaves it.
\* via tells a return from inside the try block (the text of a response) from
\* the return of an except clause and from the final return after the loop.
Return200(text) == [kind |-> "return", text |-> text, via |-> "response"]
ReturnFinal(text) == [kind |-> "return", text |-> text, via |-> "final"]
Raise == [kind |-> "raise", text |-> <<>>, via |-> "exception"]
NoReturn == [kind |-> "none", text |-> <<>>, via |-> ""]

\* text.strip() on a value: a number has no strip (AttributeError).
StripVal(v) == IF v.kind = "str" THEN Return200(Strip(v.s)) ELSE Raise

\* msg = choices[0].get("message") or {}; msg.get("content") or msg.get("text").
\* A first choice or a message that is a string has no get (AttributeError).
MessageText(choice) ==
  IF ~choice.isDict \/ choice.message.kind = "str"
  THEN [raised |-> TRUE, val |-> Absent]
  ELSE [raised |-> FALSE, val |-> Or(choice.message.content, choice.message.text)]

\* refine_with_openrouter, the handling of an HTTP 200 (both endpoints).
ParseRefine(data) ==
  LET got == IF data.isDict /\ data.choices # <<>>
             THEN MessageText(data.choices[1])
             ELSE [raised |-> FALSE, val |-> Absent]
  IN  IF got.raised THEN Raise
      ELSE StripVal(IF Truthy(got.val) THEN got.val ELSE StrVal(Str(data)))

\* openrouter_fallback, the handling of an HTTP 200 of the primary endpoint.
ParseFallback(data) ==
  IF ~data.isDict THEN Raise
  ELSE IF data.choices # <<>>
       THEN LET got == MessageText(data.choices[1])
            IN  IF got.raised THEN Raise
                ELSE StripVal(Or(got.val, StrVal(StrChoice(data))))
       ELSE Return200(Str(data))

\* openrouter_fallback, the handling of an HTTP 200 of the fallback endpoint:
\* no return without choices, and every exception is swallowed.
ParseFallbackAlt(data) ==
  IF ~data.isDict THEN NoReturn
  ELSE IF data.choices # <<>>
       THEN LET r == ParseFallback(data) IN IF r.kind = "raise" THEN NoReturn ELSE r
       ELSE NoReturn

\* refine_with_openrouter, the fallback endpoint: every exception is swallowed.
ParseRefineAlt(data) ==
  LET r == ParseRefine(data) IN IF r.kind = "raise" THEN NoReturn ELSE r

\* ------------------------------------------------------ Direct-API backend

\* What client.chat.completions.create does: a completion, whose content is
\* a string or None, a RateLimitError, or any other exception.
DirectOutcomes ==
  { [kind |-> "completion", content |-> StrVal(<<" ", "Glad to help.", " ">>)],
    [kind |-> "completion", content |-> Absent],
    [kind |-> "RateLimitError", content |-> Absent],
    [kind |-> "Exception", content |-> Absent] }

ReturnExcept(text) == [kind |-> "return", text |-> text, via |-> "except"]

\* completion.choices[0].message.content.strip(): None has no strip, and the
\* AttributeError is caught by `except Exception`.
CompletionText(o) == o.kind = "completion" /\ o.content.kind = "str"

\* refine_with_llm with the quota notice on every failure.
refine_with_llm_NoticeOnAnyFailure(o, base_answer) ==
  IF CompletionText(o) THEN Return200(Strip(o.content.s))
  ELSE ReturnExcept(QuotaUnavailable(base_answer))

\* refine_with_llm
refine_with_llm(o, base_answer) ==
  IF CompletionText(o) THEN Return200(Strip(o.content.s))
  ELSE IF o.kind = "RateLimitError" THEN ReturnExcept(QuotaUnavailable(base_answer))
  ELSE ReturnExcept(base_answer)

\* llm_fallback_answer
llm_fallback_answer(o) ==
  IF CompletionText(o) THEN Return200(Strip(o.content.s))
  ELSE IF o.kind = "RateLimitError" THEN ReturnExcept(RateLimitReferral)
  ELSE ReturnExcept(TechnicalIssueReferral)

\* ---------------------------------------------------------- Gateway backend

max_retries == 3

\* backoff0 = 1.0 second, in milliseconds.
backoff0 == 1000

openrouter_fallback_base == "https://openrouter.ai/api/v1"
openrouter_default_base == "https://api.openrouter.ai/v1"

Min(a, b) == IF a <= b THEN a ELSE b

\* Backoff with the first delay before every retry.
Backoff_Constant(a) == backoff0

\* min(backoff0 * (2 ** attempt), 8.0), in milliseconds.
Backoff(a) == Min(backoff0 * (2 ^ a), 8000)

\* random.uniform(0, 0.1), in milliseconds: its two ends.
Jitter == {0, 100}

\* What requests.post does: a response with a status (and, on a 200, a
\* decoded body), or a requests.RequestException.
Statuses == {200, 429, 503, 500}

PostOutcomes ==
  {[kind |-> "response", status |-> 200, body |-> b] : b \in Bodies}
    \cup {[kind |-> "response", status |-> st, body |-> NoBody] : st \in Statuses \ {200}}
    \cup {[kind |-> "RequestException", status |-> 0, body |-> NoBody]}

\* Retryable with every status but 200 retried.
Retryable_EveryFailure(status) == status # 200

\* `resp.status_code in (429, 503)`
Retryable(status) == status \in {429, 503}

IsFinalAttempt(a) == a = max_retries - 1

\* UseFallbackHost without the test of the first attempt.
UseFallbackHost_AnyAttempt(a, base) == base # openrouter_fallback_base

\* UseFallbackHost without the comparison of the two endpoints.
UseFallbackHost_SameEndpointToo(a, base) == a = 0

\* `attempt == 0 and openrouter_base != openrouter_fallback_base`
UseFallbackHost(a, base) == a = 0 /\ base # openrouter_fallback_base

\* The template of a provider function.
TemplateOf(fn) ==
  IF fn \in {"refine_with_llm", "refine_with_openrouter"} THEN "refine" ELSE "fallback"

\* temperature, in tenths.
Temperature(template) == IF template = "refine" THEN 4 ELSE 5

\* What the events log keeps of a request: where it went, and what came back.
PostEvent(url, a, template, o) ==
  [ev |-> "post", url |-> url \o "/chat/completions", attempt |-> a,
   status |-> o.status, error |-> IF o.kind = "response" THEN "" ELSE o.kind,
   body |-> o.body, content |-> Absent, delay |-> 0,
   temperature |-> Temperature(template)]

SleepEvent(a, delay) ==
  [ev |-> "sleep", url |-> "", attempt |-> a, status |-> 0, error |-> "",
   body |-> NoBody, content |-> Absent, delay |-> delay, temperature |-> 0]

CreateEvent(template, o) ==
  [ev |-> "create", url |-> "chat.completions", attempt |-> 0,
   status |-> IF o.kind = "completion" THEN 200 ELSE 0,
   error |-> IF o.kind = "completion" THEN "" ELSE o.kind,
   body |-> NoBody, content |-> o.content, delay |-> 0,
   temperature |-> Temperature(template)]

\* The return after the loop.
FinalFailure(template, base_answer) ==
  ReturnFinal(IF template = "refine" THEN GatewayUnavailable(base_answer) ELSE GatewayReferral)

\* The handling of an HTTP 200 of the primary endpoint.
Parse(template, data) ==
  IF template = "refine" THEN ParseRefine(data) ELSE ParseFallback(data)

\* The handling of an HTTP 200 of the fallback endpoint.
ParseAlt(template, data) ==
  IF template = "refine" THEN ParseRefineAlt(data) ELSE ParseFallbackAlt(data)

\* ------------------------------------------------------------ the resolver

Greetings == {<<"hi">>, <<"hello">>, <<"hey">>}

\* IsGreeting without the lower-casing.
IsGreeting_CaseSensitive(query) == query \in Greetings

\* query.lower() in ["hi", "hello", "hey"]
IsGreeting(query) == Lower(query) \in Greetings

\* ClientReady with the missing client taken for a ready one.
ClientReady_Always(client) == TRUE

\* `client` as a condition, `client is None` negated.
ClientReady(client) == client # "None"

\* Which provider function generate_bot_reply calls once search has returned
\* found, "" when it calls none.
ProviderCall(found, client, use_llm, provider, openrouter_ready) ==
  IF found.item = None
  THEN IF use_llm /\ provider = "OpenAI" /\ ClientReady(client) THEN "llm_fallback_answer"
       ELSE IF use_llm /\ provider = "OpenRouter" /\ openrouter_ready THEN "openrouter_fallback"
       ELSE ""
  ELSE IF ~use_llm THEN ""
       ELSE IF provider = "OpenAI"
            THEN (IF ~ClientReady(client) THEN "" ELSE "refine_with_llm")
            ELSE IF provider = "OpenRouter"
                 THEN (IF ~openrouter_ready THEN "" ELSE "refine_with_openrouter")
                 ELSE ""

\* What generate_bot_reply returns when it calls no provider.
PlainReply(found) ==
  IF found.item = None THEN NoMatchReferral
  ELSE Block(found.item.question, found.item.answer, found.score)

\* ProviderReply with the provider's text returned verbatim for both templates.
ProviderReply_Verbatim(found, text) == text

\* What generate_bot_reply returns once the provider function returned text.
ProviderReply(found, text) ==
  IF found.item = None THEN text ELSE Block(found.item.question, text, found.score)

CallRecord(fn, query, base_answer) ==
  [fn |-> fn, query |-> query, base_answer |-> base_answer]

NoResult == [kind |-> "none", text |-> <<>>, via |-> ""]

vars == <<engine, last_search, env, pc, args, calls, events, attempt, result, reply,
          searching, returned, twin>>

\* generate_bot_reply, from its entry to its first provider call or, when it
\* makes none, to its return.
Enter(query0, client, use_llm, provider, openrouter_ready) ==
  LET query == Strip(query0)
      found == search(engine, query)
      fn == ProviderCall(found, client, use_llm, provider, openrouter_ready)
  IN  /\ pc = "idle"
      /\ args' = [query |-> query0, client |-> client, use_llm |-> use_llm,
                  provider |-> provider, openrouter_ready |-> openrouter_ready]
      /\ events' = <<>>
      /\ attempt' = 0
      /\ result' = NoResult
      /\ IF query = <<>> \/ IsGreeting(query)
         THEN /\ reply' = IF query = <<>> THEN PromptToType ELSE GreetingReply
              /\ pc' = "done"
              /\ calls' = <<>>
              /\ last_search' = NoSearch
         ELSE /\ last_search' = [query |-> query, called |-> TRUE] @@ found
              /\ IF fn = ""
                 THEN /\ reply' = PlainReply(found)
                      /\ pc' = "done"
                      /\ calls' = <<CallRecord("search", query, <<>>)>>
                 ELSE /\ reply' = <<>>
                      /\ pc' = IF fn \in {"llm_fallback_answer", "refine_with_llm"}
                               THEN "create" ELSE "post"
                      /\ calls' = <<CallRecord("search", query, <<>>),
                                    CallRecord(fn, query, found.item.answer)>>
      /\ UNCHANGED <<engine, env, searching, returned, twin>>

\* A chat turn of main: the provider comes from the select box, and
\* openrouter_ready is bool(openrouter_key) when OpenRouter is selected.
main ==
  \E user_input \in Queries \ {<<>>}, use_llm \in BOOLEAN, provider \in {"OpenAI", "OpenRouter"} :
    Enter(user_input, env.client, use_llm, provider,
          provider = "OpenRouter" /\ env.openrouter_key # "None")

\* generate_bot_reply called with arguments of the caller's choice.
generate_bot_reply ==
  \E query \in Queries, use_llm \in BOOLEAN, provider \in {"OpenAI", "OpenRouter", "Other"},
     openrouter_ready \in BOOLEAN :
    Enter(query, env.client, use_llm, provider, openrouter_ready)

Template == TemplateOf(calls[Len(calls)].fn)
BaseAnswer == calls[Len(calls)].base_answer

\* The provider function ends, and generate_bot_reply with it.
Finish(outcome) ==
  /\ result' = outcome
  /\ pc' = IF outcome.kind = "raise" THEN "raised" ELSE "done"
  /\ reply' = IF outcome.kind = "raise" THEN <<>> ELSE ProviderReply(last_search, outcome.text)

\* refine_with_llm or llm_fallback_answer: the one API request and its outcome.
DirectCreate ==
  /\ pc = "create"
  /\ \E o \in DirectOutcomes :
       /\ events' = Append(events, CreateEvent(Template, o))
       /\ Finish(IF Template = "refine" THEN refine_with_llm(o, BaseAnswer)
                 ELSE llm_fallback_answer(o))
  /\ UNCHANGED <<engine, last_search, env, args, calls, attempt, searching, returned, twin>>

\* `break` or `continue` after a retryable outcome.
BackoffOrBreak ==
  IF IsFinalAttempt(attempt) THEN Finish(FinalFailure(Template, BaseAnswer))
  ELSE pc' = "sleep" /\ UNCHANGED <<result, reply>>

\* One pass of the retry loop up to the response of the primary endpoint.
GatewayPost ==
  /\ pc = "post"
  /\ \E o \in PostOutcomes :
       /\ events' = Append(events, PostEvent(env.openrouter_base, attempt, Template, o))
       /\ IF o.kind = "response"
          THEN IF o.status = 200 THEN Finish(Parse(Template, o.body))
               ELSE IF Retryable(o.status) THEN BackoffOrBreak
               ELSE Finish(FinalFailure(Template, BaseAnswer))
          ELSE IF UseFallbackHost(attempt, env.openrouter_base)
               THEN pc' = "alt_post" /\ UNCHANGED <<result, reply>>
               ELSE BackoffOrBreak
  /\ UNCHANGED <<engine, last_search, env, args, calls, attempt, searching, returned, twin>>

\* The request to the fallback host inside the except clause.
GatewayAltPost ==
  /\ pc = "alt_post"
  /\ \E o \in PostOutcomes :
       LET parsed == IF o.kind = "response" /\ o.status = 200
                     THEN ParseAlt(Template, o.body) ELSE NoReturn
       IN  /\ events' = Append(events, PostEvent(openrouter_fallback_base, attempt, Template, o))
           /\ IF parsed.kind = "return" THEN Finish(parsed) ELSE BackoffOrBreak
  /\ UNCHANGED <<engine, last_search, env, args, calls, attempt, searching, returned, twin>>

\* GatewaySleep with `continue` reached without time.sleep.
GatewaySleep_NoSleep ==
  /\ pc = "sleep"
  /\ attempt' = attempt + 1
  /\ pc' = "post"
  /\ UNCHANGED <<engine, last_search, env, args, calls, events, result, reply,
                 searching, returned, twin>>

\* time.sleep(...) and `continue`: the next pass of the loop, or its end.
GatewaySleep ==
  /\ pc = "sleep"
  /\ \E jitter \in Jitter :
       events' = Append(events, SleepEvent(attempt, Backoff(attempt) + jitter))
  /\ attempt' = attempt + 1
  /\ IF attempt + 1 < max_retries
     THEN pc' = "post" /\ UNCHANGED <<result, reply>>
     ELSE Finish(FinalFailure(Template, BaseAnswer))
  /\ UNCHANGED <<engine, last_search, env, args, calls, searching, returned, twin>>

\* The catalogs of the running application: the test fixture's two FAQs, and
\* a catalog with a question that is literally "hi".
AppCatalogs ==
  { <<FAQItem(1, Q_return_policy, <<"30 days return.">>, "returns"),
      FAQItem(2, Q_track_order, <<"Use the tracking link.">>, "orders")>>,
    <<FAQItem(5, <<"hi">>, <<"A greeting.">>, "misc"),
      FAQItem(2, Q_track_order, <<"Use the tracking link.">>, "orders")>> }

Envs ==
  [client : {"None", "OpenAI"},
   openrouter_key : {"None", "sk-or"},
   openrouter_base : {openrouter_default_base, openrouter_fallback_base}]

NoArgs ==
  [query |-> <<>>, client |-> "None", use_llm |-> FALSE, provider |-> "OpenAI",
   openrouter_ready |-> FALSE]

\* The largest number of resolutions running at once.
MaxResolutions == 2

Resolutions == 1..MaxResolutions

\* A resolution that is not inside engine.search.
NotSearching ==
  [pc |-> "idle", query |-> <<>>, query_vec |-> <<>>, idx |-> 0, best_score |-> 0]

\* No resolution is inside engine.search, and none has returned from it.
NoSearches == searching = [p \in Resolutions |-> NotSearching] /\ returned = {}

\* A Gateway function at the top of its retry loop.
TwinStart == [pc |-> "post", attempt |-> 0, events |-> <<>>, result |-> NoResult]

\* Both Gateway functions about to be called with the same query.
NoTwin == twin = [refine |-> TwinStart, fallback |-> TwinStart]

\* No generate_bot_reply call is running.
Idle ==
  /\ pc = "idle"
  /\ args = NoArgs
  /\ calls = <<>>
  /\ events = <<>>
  /\ attempt = 0
  /\ result = NoResult
  /\ reply = <<>>
  /\ last_search = NoSearch

\* main after load_faqs and FAQSearchEngine(faqs), threshold defaulted.
Init ==
  /\ engine \in {FAQSearchEngine(c, threshold_default) : c \in AppCatalogs}
  /\ env \in Envs
  /\ Idle
  /\ NoSearches
  /\ NoTwin

\* The script is run again for the next chat turn (st.rerun, or the user's
\* next input after a run that ended in an exception).
rerun ==
  /\ pc \in {"done", "raised"}
  /\ pc' = "idle"
  /\ args' = NoArgs
  /\ calls' = <<>>
  /\ events' = <<>>
  /\ attempt' = 0
  /\ result' = NoResult
  /\ reply' = <<>>
  /\ last_search' = NoSearch
  /\ UNCHANGED <<engine, env, searching, returned, twin>>

Next ==
  \/ main
  \/ generate_bot_reply
  \/ rerun
  \/ DirectCreate
  \/ GatewayPost
  \/ GatewayAltPost
  \/ GatewaySleep

Spec == Init /\ [][Next]_vars

\* -------------------------------------------------- the search engine alone

SearchInit ==
  /\ engine \in {FAQSearchEngine(c, th) : c \in Catalogs, th \in Thresholds}
  /\ env = [client |-> "None", openrouter_key |-> "None",
            openrouter_base |-> openrouter_default_base]
  /\ Idle
  /\ NoSearches
  /\ NoTwin

\* A caller runs engine.search(query).
Search ==
  /\ engine.ok
  /\ \E query \in Queries :
       last_search' = [query |-> query, called |-> TRUE] @@ search(engine, query)
  /\ UNCHANGED <<engine, env, pc, args, calls, events, attempt, result, reply,
                 searching, returned, twin>>

SearchNext == Search

SearchSpec == SearchInit /\ [][SearchNext]_vars

\* ------------------------------------------- concurrent resolutions

\* The queries of the concurrent resolutions.
ConcurrentQueries == {<<" ">>, <<"return">>, Q_return_policy, Q_track_order}

Returned(query, item, score) == [query |-> query, item |-> item, score |-> score]

\* Resolution p enters engine.search: the test of a blank query.
SearchCall(p) ==
  /\ searching[p].pc = "idle"
  /\ \E query \in ConcurrentQueries :
       IF Strip(query) = <<>>
       THEN /\ returned' = returned \cup {Returned(query, None, 0)}
            /\ UNCHANGED searching
       ELSE /\ searching' = [searching EXCEPT ![p] =
                               [NotSearching EXCEPT !.pc = "transform", !.query = query]]
            /\ UNCHANGED returned
  /\ UNCHANGED <<engine, last_search, env, pc, args, calls, events, attempt, result, reply, twin>>

\* query_vec = self.vectorizer.transform([query])
SearchTransform(p) ==
  /\ searching[p].pc = "transform"
  /\ searching' = [searching EXCEPT
                     ![p].query_vec = TfidfVector(engine.vocabulary, engine.idf, searching[p].query),
                     ![p].pc = "similarity"]
  /\ UNCHANGED <<engine, last_search, env, pc, args, calls, events, attempt, result, reply, returned, twin>>

\* sims = cosine_similarity(...)[0]; idx = int(np.argmax(sims)); best_score = float(sims[idx])
SearchSimilarity(p) ==
  /\ searching[p].pc = "similarity"
  /\ LET sims == [i \in DOMAIN engine.question_vectors |->
                    CosineSimilarity(searching[p].query_vec, engine.question_vectors[i])]
         idx == ArgMax(sims)
     IN  searching' = [searching EXCEPT ![p].idx = idx, ![p].best_score = sims[idx],
                                        ![p].pc = "threshold"]
  /\ UNCHANGED <<engine, last_search, env, pc, args, calls, events, attempt, result, reply, returned, twin>>

\* SearchReturn with the matched FAQ moved to the front of self.faqs.
SearchReturn_MovesHitToFront(p) ==
  /\ searching[p].pc = "threshold"
  /\ LET s == searching[p]
         hit == ~BelowThreshold(s.best_score, engine.threshold)
         item == IF hit THEN engine.faqs[s.idx] ELSE None
         rest == SelectSeq(engine.faqs, LAMBDA f : f # item)
     IN  /\ returned' = returned \cup {Returned(s.query, item, s.best_score)}
         /\ engine' = IF hit THEN [engine EXCEPT !.faqs = <<item>> \o rest] ELSE engine
  /\ searching' = [searching EXCEPT ![p] = NotSearching]
  /\ UNCHANGED <<last_search, env, pc, args, calls, events, attempt, result, reply, twin>>

\* The test of the threshold and the return of search.
SearchReturn(p) ==
  /\ searching[p].pc = "threshold"
  /\ LET s == searching[p]
         item == IF BelowThreshold(s.best_score, engine.threshold)
                 THEN None ELSE engine.faqs[s.idx]
     IN  returned' = returned \cup {Returned(s.query, item, s.best_score)}
  /\ searching' = [searching EXCEPT ![p] = NotSearching]
  /\ UNCHANGED <<engine, last_search, env, pc, args, calls, events, attempt, result, reply, twin>>

\* One engine, built once, read by every resolution.
ConcurrentInit ==
  /\ engine \in {FAQSearchEngine(c, threshold_default) : c \in AppCatalogs}
  /\ env = [client |-> "None", openrouter_key |-> "None",
            openrouter_base |-> openrouter_default_base]
  /\ Idle
  /\ NoSearches
  /\ NoTwin

ConcurrentNext ==
  \/ \E p \in Resolutions : SearchCall(p)
  \/ \E p \in Resolutions : SearchTransform(p)
  \/ \E p \in Resolutions : SearchSimilarity(p)
  \/ \E p \in Resolutions : SearchReturn(p)

ConcurrentSpec == ConcurrentInit /\ [][ConcurrentNext]_vars

\* ------------------------------------- the two Gateway templates side by side

\* The end of a Gateway function: a return or an exception.
TwinEnd(st, outcome) ==
  [st EXCEPT !.pc = IF outcome.kind = "raise" THEN "raised" ELSE "done", !.result = outcome]

\* `break` or `continue` after a retryable outcome.
TwinBackoffOrBreak(template, base_answer, st) ==
  IF IsFinalAttempt(st.attempt) THEN TwinEnd(st, FinalFailure(template, base_answer))
  ELSE [st EXCEPT !.pc = "sleep"]

\* One step of the retry loop of a template from st: the request to the
\* primary endpoint, the request to the fallback endpoint or the sleep, with
\* o the outcome of the request and jitter the random part of the sleep.
GatewayStep(template, base_answer, st, o, jitter) ==
  LET sent(base) ==
        [st EXCEPT !.events = Append(@, PostEvent(base, st.attempt, template, o))]
      parsed == IF o.kind = "response" /\ o.status = 200
                THEN ParseAlt(template, o.body) ELSE NoReturn
  IN  IF st.pc = "post"
      THEN IF o.kind = "response"
           THEN IF o.status = 200
                THEN TwinEnd(sent(env.openrouter_base), Parse(template, o.body))
                ELSE IF Retryable(o.status)
                THEN TwinBackoffOrBreak(template, base_answer, sent(env.openrouter_base))
                ELSE TwinEnd(sent(env.openrouter_base), FinalFailure(template, base_answer))
           ELSE IF UseFallbackHost(st.attempt, env.openrouter_base)
                THEN [sent(env.openrouter_base) EXCEPT !.pc = "alt_post"]
                ELSE TwinBackoffOrBreak(template, base_answer, sent(env.openrouter_base))
      ELSE IF st.pc = "alt_post"
      THEN IF parsed.kind = "return"
           THEN TwinEnd(sent(openrouter_fallback_base), parsed)
           ELSE TwinBackoffOrBreak(template, base_answer, sent(openrouter_fallback_base))
      ELSE IF st.pc = "sleep"
      THEN [st EXCEPT !.events = Append(@, SleepEvent(st.attempt, Backoff(st.attempt) + jitter)),
                      !.attempt = @ + 1,
                      !.pc = "post"]
      ELSE st

\* The base_answer refine_with_openrouter is called with.
TwinBaseAnswer == <<"30 days return.">>

\* refine_with_openrouter and openrouter_fallback each take their next step,
\* and the endpoints and the random generator treat the two alike.
TwinStep ==
  /\ twin.refine.pc = twin.fallback.pc
  /\ twin.refine.pc \in {"post", "alt_post", "sleep"}
  /\ \E o \in PostOutcomes, jitter \in Jitter :
       twin' = [refine |-> GatewayStep("refine", TwinBaseAnswer, twin.refine, o, jitter),
                fallback |-> GatewayStep("fallback", <<>>, twin.fallback, o, jitter)]
  /\ UNCHANGED <<engine, last_search, env, pc, args, calls, events, attempt, result, reply,
                 searching, returned>>

TwinInit ==
  /\ engine \in {FAQSearchEngine(c, threshold_default) : c \in AppCatalogs}
  /\ env \in {e \in Envs : e.client = "None" /\ e.openrouter_key = "sk-or"}
  /\ Idle
  /\ NoSearches
  /\ NoTwin

TwinNext == TwinStep

TwinSpec == TwinInit /\ [][TwinNext]_vars

\* ------------------------------------------------------------ the properties

DirectFns == {"llm_fallback_answer", "refine_with_llm"}
GatewayFns == {"openrouter_fallback", "refine_with_openrouter"}
ProviderFns == DirectFns \cup GatewayFns

\* A generate_bot_reply call is running or has ended.
InCall == pc # "idle"

TrimmedQuery == Strip(args.query)

\* The trimmed query is neither empty nor a greeting.
Answerable == TrimmedQuery # <<>> /\ Lower(TrimmedQuery) \notin {<<"hi">>, <<"hello">>, <<"hey">>}

\* The selected provider is ready.
SelectedReady ==
  \/ args.provider = "OpenAI" /\ args.client # "None"
  \/ args.provider = "OpenRouter" /\ args.openrouter_ready

ProviderCalls == SelectSeq(calls, LAMBDA c : c.fn \in ProviderFns)

\* The call has invoked provider function fn.
Invoked(fn) == Len(calls) = 2 /\ calls[2].fn = fn

InvokedOneOf(fns) == Len(calls) = 2 /\ calls[2].fn \in fns

Posts == SelectSeq(events, LAMBDA e : e.ev = "post")

\* r is the formatted block of question, answer and the score to the nearest
\* hundredth, two decimals shown.
IsBlock(r, question, answer, score) ==
  \E h \in 0..100 :
    /\ 100 * h - 50 <= score /\ score <= 100 * h + 50
    /\ r = <<"**Q:** ">> \o question \o <<"\n", "**A:** ">> \o answer
             \o <<"\n\n", "_Match confidence: ", Digit(h \div 100), ".",
                  Digit((h \div 10) % 10), Digit(h % 10), "_">>

\* C1 (as claimed): no provider behaviour makes generate_bot_reply end in an
\* exception; every call ends by returning a reply.
C1_NoProviderFailurePropagates == pc # "raised"

\* C2: a provider function is invoked exactly when the trimmed query is not
\* empty and not a greeting, use_llm is set and the selected provider is
\* ready; then exactly one is invoked, after search, it is the selected
\* provider's function of the template search's result asks for, with the
\* trimmed query (and the matched answer), and every request and sleep is the
\* selected backend's.
C2_ProviderInvokedExactlyWhenReady ==
  InCall =>
    LET n == Len(ProviderCalls)
        expected ==
          IF args.provider = "OpenAI"
          THEN (IF last_search.item = None THEN "llm_fallback_answer" ELSE "refine_with_llm")
          ELSE (IF last_search.item = None THEN "openrouter_fallback" ELSE "refine_with_openrouter")
    IN  /\ n <= 1
        /\ (n = 1) <=> (Answerable /\ args.use_llm /\ SelectedReady)
        /\ n = 1 =>
             /\ Len(calls) = 2
             /\ calls[1].fn = "search"
             /\ last_search.called /\ last_search.query = TrimmedQuery
             /\ calls[2].fn = expected
             /\ calls[2].query = TrimmedQuery
             /\ last_search.item # None => calls[2].base_answer = last_search.item.answer
        /\ n = 0 => events = <<>>
        /\ \A i \in DOMAIN events :
             /\ events[i].ev = "create" => args.provider = "OpenAI"
             /\ events[i].ev \in {"post", "sleep"} => args.provider = "OpenRouter"

C2_Witness ==
  /\ pc = "done"
  /\ Invoked("refine_with_openrouter")
  /\ args.client # "None"
  /\ Len(Posts) >= 2

\* C3: with use_llm off or the selected provider not ready, a query that is
\* neither empty nor a greeting gets the static referral when search found no
\* item, and the formatted block of the matched question, its raw answer and
\* the score to two decimals when it found one.
C3_PlainReplyWithoutProvider ==
  (pc = "done" /\ Answerable /\ (~args.use_llm \/ ~SelectedReady)) =>
    IF last_search.item = None
    THEN reply = <<"I couldn't find an exact answer.", "\n",
                   "Please contact our human support team at support@example.com or +91-9876543210.">>
    ELSE /\ \E i \in DOMAIN engine.faqs : last_search.item = engine.faqs[i]
         /\ IsBlock(reply, last_search.item.question, last_search.item.answer, last_search.score)

C3_Witness ==
  /\ pc = "done"
  /\ args.use_llm /\ args.provider = "OpenRouter" /\ ~args.openrouter_ready
  /\ last_search.item # None
  /\ last_search.score % 100 > 50

\* C4: a query that is empty after trimming gets the prompt-to-type message
\* and a greeting gets the greeting reply, and in both cases neither search
\* nor a provider has been invoked, whatever the catalog and the settings.
C4_EarlyBranchesAreTerminal ==
  (InCall /\ ~Answerable) =>
    /\ pc = "done"
    /\ reply = IF TrimmedQuery = <<>> THEN PromptToType ELSE GreetingReply
    /\ calls = <<>>
    /\ events = <<>>
    /\ ~last_search.called

C4_Witness ==
  /\ pc = "done"
  /\ args.query = <<" ", "Hi", " ">>
  /\ \E i \in DOMAIN engine.faqs : engine.faqs[i].question = <<"hi">>
  /\ args.use_llm /\ SelectedReady
  /\ reply = GreetingReply

\* C5: after a refinement the reply is the formatted block of the matched
\* question, the text the provider returned and the score search returned.
C5_RefinedBlockKeepsQuestionAndScore ==
  (pc = "done" /\ InvokedOneOf({"refine_with_llm", "refine_with_openrouter"})) =>
    /\ result.kind = "return"
    /\ last_search.item # None
    /\ last_search.item = search(engine, TrimmedQuery).item
    /\ last_search.score = search(engine, TrimmedQuery).score
    /\ IsBlock(reply, last_search.item.question, result.text, last_search.score)

C5_Witness ==
  /\ pc = "done"
  /\ Invoked("refine_with_openrouter")
  /\ result.via = "final"
  /\ last_search.score < 10000

\* The requests of the call to the fallback endpoint, when it is another
\* endpoint than the primary one.
AltPosts ==
  SelectSeq(events, LAMBDA e :
    /\ e.ev = "post"
    /\ env.openrouter_base # openrouter_fallback_base
    /\ e.url = openrouter_fallback_base \o "/chat/completions")

\* C6 (as claimed): a Gateway call sends no more than 3 HTTP requests, those
\* to the fallback endpoint counted.
C6_AtMostThreeRequests == Len(Posts) <= 3

\* C6 (amended): a Gateway call sends at most 3 requests to the primary
\* endpoint and at most 1 to the fallback endpoint, 4 requests at most, and
\* at most 3 when the primary endpoint is the fallback endpoint.
C6_AtMostThreePrimaryAndOneFallback ==
  /\ Len(Posts) - Len(AltPosts) <= 3
  /\ Len(AltPosts) <= 1
  /\ Len(Posts) <= 4
  /\ env.openrouter_base = openrouter_fallback_base => Len(Posts) <= 3

C6_Witness ==
  /\ pc = "done"
  /\ Len(Posts) = 4
  /\ Len(AltPosts) = 1

\* C7 (as claimed): a Gateway call that has ended without returning on an
\* HTTP 200 has returned, and returned the failure text of its template.
C7_NoSuccessEndsInFailureText ==
  (pc \in {"done", "raised"} /\ InvokedOneOf(GatewayFns)
     /\ ~(result.kind = "return" /\ result.via = "response")) =>
    /\ result.kind = "return"
    /\ result.text =
         IF calls[2].fn = "refine_with_openrouter"
         THEN calls[2].base_answer \o <<"\n\n", "_(AI refinement temporarily unavailable.)_">>
         ELSE GatewayReferral

\* C8: a Direct-API call makes exactly one API request and never sleeps; it
\* returns the stripped completion text on success, base_answer with the
\* quota notice (refinement) or the usage-limits referral (fallback) on a
\* RateLimitError, and base_answer unchanged (refinement, so that the reply
\* is the non-LLM block) or the technical-issue referral (fallback) on any
\* other failure.
C8_DirectCallOneRequestAndMapping ==
  /\ pc = "create" => events = <<>>
  /\ (pc \in {"done", "raised"} /\ InvokedOneOf(DirectFns)) =>
       /\ pc = "done"
       /\ result.kind = "return"
       /\ Len(events) = 1
       /\ events[1].ev = "create"
       /\ LET e == events[1]
              refine == calls[2].fn = "refine_with_llm"
              base == calls[2].base_answer
          IN  IF e.error = "" /\ e.content.kind = "str"
              THEN /\ result.text = Strip(e.content.s)
                   /\ result.text = <<>> \/ (Head(result.text) # " " /\ result.text[Len(result.text)] # " ")
              ELSE IF e.error = "RateLimitError"
              THEN result.text =
                     IF refine
                     THEN base \o <<"\n\n", "_(AI refinement temporarily unavailable: quota exceeded.)_">>
                     ELSE RateLimitReferral
              ELSE IF refine
              THEN /\ result.text = base
                   /\ IsBlock(reply, last_search.item.question, last_search.item.answer,
                              last_search.score)
              ELSE result.text = TechnicalIssueReferral

C8_Witness ==
  /\ pc = "done"
  /\ Invoked("refine_with_llm")
  /\ events[1].error = "Exception"
  /\ reply = PlainReply(last_search)

\* Two weight vectors over the same terms have the same direction.
SameDirection(u, v) ==
  /\ \E s \in DOMAIN u : u[s] # 0
  /\ \E s \in DOMAIN v : v[s] # 0
  /\ \A s, t \in DOMAIN u : u[s] * v[t] = u[t] * v[s]

C10_ThresholdDecidesMatch ==
  (last_search.called /\ Strip(last_search.query) # <<>>) =>
    LET qv == TfidfVector(engine.vocabulary, engine.idf, last_search.query)
        sims == [i \in DOMAIN engine.faqs |-> CosineSimilarity(qv, engine.question_vectors[i])]
        m == CHOOSE x \in {sims[i] : i \in DOMAIN sims} : \A i \in DOMAIN sims : sims[i] <= x
        first == CHOOSE i \in DOMAIN sims : sims[i] = m /\ \A j \in 1..(i - 1) : sims[j] # m
    IN  /\ last_search.score = m
        /\ (last_search.item = None) <=> (m < engine.threshold)
        /\ m >= engine.threshold => last_search.item = engine.faqs[first]
        /\ last_search.item = None \/ \E i \in DOMAIN engine.faqs : last_search.item = engine.faqs[i]
        /\ last_search.item = None => last_search.score < engine.threshold

C10_Witness ==
  /\ last_search.called
  /\ Strip(last_search.query) # <<>>
  /\ last_search.score = engine.threshold
  /\ last_search.item # None

\* The query is empty or made of blanks only.
BlankQuery(query) == \A i \in DOMAIN query : query[i] = " "

\* C11: on every catalog an engine exists for, search on an empty or
\* whitespace-only query returns no item and the score 0.0, and has neither
\* vectorized the query nor computed a similarity.
C11_BlankQueryReturnsNoneUnvectorized ==
  (last_search.called /\ BlankQuery(last_search.query)) =>
    /\ last_search.item = None
    /\ last_search.score = 0
    /\ ~last_search.transformed

C11_Witness ==
  /\ last_search.called
  /\ last_search.query = <<" ">>
  /\ last_search.item = None
  /\ engine.threshold = 0
  /\ Len(engine.faqs) = MaxFaqs

\* C12: search is read-only.  Whatever searches concurrent resolutions run,
\* and however their steps interleave, the catalog, the question vectors, the
\* vocabulary (with its weights) and the threshold stay as they were built,
\* every search returns what a search of its query alone returns, and two
\* searches of the same query return the same item and score.
C12_SearchIsReadOnly ==
  /\ [][/\ engine'.faqs = engine.faqs
        /\ engine'.question_vectors = engine.question_vectors
        /\ engine'.vocabulary = engine.vocabulary
        /\ engine'.idf = engine.idf
        /\ engine'.threshold = engine.threshold]_vars
  /\ [](\A r \in returned :
          /\ r.item = search(engine, r.query).item
          /\ r.score = search(engine, r.query).score)
  /\ [](\A r1, r2 \in returned : r1.query = r2.query => r1 = r2)

C12_Witness ==
  /\ searching[1].pc = "threshold"
  /\ searching[2].pc = "similarity"
  /\ searching[1].query # searching[2].query
  /\ Cardinality(returned) >= 3
  /\ \E r \in returned : r.query = searching[1].query /\ r.item # None

\* A request of the call that went to the fallback endpoint from inside the
\* except clause, and one that went to the primary endpoint.
IsAltPost(e) ==
  /\ e.ev = "post"
  /\ env.openrouter_base # openrouter_fallback_base
  /\ e.url = openrouter_fallback_base \o "/chat/completions"

IsPrimaryPost(e) == e.ev = "post" /\ ~IsAltPost(e)

\* The request was answered with an HTTP response of this status.
Answered(e, statuses) == e.ev = "post" /\ e.error = "" /\ e.status \in statuses

\* The text the claim reads out of a decoded 200 body: the first choice's
\* message content, else the message's text field, else the whole body as a
\* string; stripped.
ClaimedText(data) ==
  LET msg == data.choices[1].message
      found == IF data.isDict /\ data.choices # <<>> /\ data.choices[1].isDict
                    /\ msg.kind = "dict"
               THEN (IF msg.content.kind = "str" /\ msg.content.s # <<>>
                     THEN msg.content ELSE msg.text)
               ELSE Absent
  IN  IF found.kind = "str" /\ found.s # <<>> THEN Strip(found.s) ELSE Strip(Str(data))

\* C13 (as claimed): an HTTP 200, from either endpoint on any attempt and for
\* either template, is the last event of the call: no request and no sleep
\* follows it, and the call has returned the stripped text of its body.
C13_Http200EndsCallWithItsText ==
  \A i \in DOMAIN events :
    Answered(events[i], {200}) =>
      /\ i = Len(events)
      /\ pc = "done"
      /\ result.kind = "return"
      /\ result.text = ClaimedText(events[i].body)

\* C14 (as claimed): an HTTP response with a status other than 200, 429 and
\* 503, from either endpoint on any attempt, is the last event of the call,
\* and the call has returned the final failure text of its template.
C14_OtherStatusStopsCall ==
  \A i \in DOMAIN events :
    Answered(events[i], Statuses \ {200, 429, 503}) =>
      /\ i = Len(events)
      /\ pc = "done"
      /\ result = FinalFailure(Template, BaseAnswer)

\* C14 (amended): such a response from the primary endpoint, on any attempt,
\* is the last event of the call, which has returned the final failure text of
\* its template; from the fallback endpoint it does not end the call: the
\* backoff sleep of the first attempt and the second primary attempt follow.
C14_OtherStatusFromPrimaryStopsCall ==
  \A i \in DOMAIN events :
    Answered(events[i], Statuses \ {200, 429, 503}) =>
      IF IsPrimaryPost(events[i])
      THEN /\ i = Len(events)
           /\ pc = "done"
           /\ result.kind = "return"
           /\ result.text =
                IF calls[2].fn = "refine_with_openrouter"
                THEN calls[2].base_answer \o <<"\n\n", "_(AI refinement temporarily unavailable.)_">>
                ELSE GatewayReferral
      ELSE /\ i = Len(events) => pc = "sleep"
           /\ i < Len(events) => events[i + 1].ev = "sleep"
           /\ i + 1 = Len(events) => pc = "post"
           /\ i + 1 < Len(events) => IsPrimaryPost(events[i + 2]) /\ events[i + 2].attempt = 1

C14_Witness ==
  /\ pc = "done"
  /\ Len(events) = 6
  /\ IsAltPost(events[2]) /\ Answered(events[2], {500})
  /\ IsPrimaryPost(events[6]) /\ Answered(events[6], {500})
  /\ events[6].attempt = 2
  /\ calls[2].fn = "openrouter_fallback"

\* A retryable outcome of a primary attempt: HTTP 429 or 503, or a
\* connection-level failure.
RetryableOutcome(e) == IsPrimaryPost(e) /\ (e.error # "" \/ e.status \in {429, 503})

Sleeps == SelectSeq(events, LAMBDA e : e.ev = "sleep")

\* min(1.0 * 2^a, 8.0) seconds, in milliseconds.
ClaimedDelay(a) == IF a = 0 THEN 1000 ELSE IF a = 1 THEN 2000 ELSE IF a = 2 THEN 4000 ELSE 8000

\* A sleep of the base delay of attempt a plus a jitter of at most 0.1 s.
IsBackoffSleep(e, a) ==
  /\ e.ev = "sleep"
  /\ e.attempt = a
  /\ ClaimedDelay(a) <= e.delay /\ e.delay <= ClaimedDelay(a) + 100

\* A call sleeps at most twice, with base delays 1 s then 2 s, and two primary
\* attempts are always separated by a sleep.
SleepsSeparateAttempts ==
  /\ Len(Sleeps) <= 2
  /\ \A k \in DOMAIN Sleeps : IsBackoffSleep(Sleeps[k], k - 1)
  /\ \A i, j \in DOMAIN events :
       (i < j /\ IsPrimaryPost(events[i]) /\ IsPrimaryPost(events[j])) =>
         \E k \in (i + 1)..(j - 1) : events[k].ev = "sleep"

\* C15 (as claimed): in a call that has ended, every retryable outcome of a
\* primary attempt that is not the final one has after it one sleep of its
\* backoff delay and then the next primary attempt, and the retryable outcome
\* of the final attempt is the last event; sleeps are at most two, of base
\* delays 1 s then 2 s, and separate the primary attempts.
C15_RetryableOutcomeThenSleepAndNextAttempt ==
  (pc \in {"done", "raised"} /\ InvokedOneOf(GatewayFns)) =>
    /\ \A i \in DOMAIN events :
         RetryableOutcome(events[i]) =>
           IF events[i].attempt = max_retries - 1 THEN i = Len(events)
           ELSE \E j \in (i + 1)..(Len(events) - 1) :
                  /\ IsBackoffSleep(events[j], events[i].attempt)
                  /\ \A k \in (i + 1)..(j - 1) : events[k].ev # "sleep"
                  /\ IsPrimaryPost(events[j + 1])
                  /\ events[j + 1].attempt = events[i].attempt + 1
    /\ SleepsSeparateAttempts

\* C15 (amended): a retryable outcome of the final primary attempt is the last
\* event of the call, which returns its final failure text.  A retryable
\* outcome of an earlier attempt a is followed by one sleep of the base delay
\* min(1.0 * 2^a, 8.0) s plus at most 0.1 s and then by primary attempt a + 1;
\* only after a connection-level failure of the first attempt with differing
\* endpoints the request to the fallback endpoint comes before that sleep,
\* and when it returns a text the call ends there, without sleep or further
\* attempt.  Sleeps are at most two, of base delays 1 s then 2 s, and two
\* primary attempts are always separated by a sleep.
C15_BackoffBetweenPrimaryAttempts ==
  /\ \A i \in DOMAIN events :
       RetryableOutcome(events[i]) =>
         LET a == events[i].attempt
             alt == i < Len(events) /\ IsAltPost(events[i + 1])
             s == IF alt THEN i + 2 ELSE i + 1
             returned_by_alt ==
               /\ alt /\ i + 1 = Len(events)
               /\ Answered(events[i + 1], {200})
               /\ pc = "done" /\ result.kind = "return" /\ result.via = "response"
         IN  IF a = max_retries - 1
             THEN i = Len(events) /\ pc = "done" /\ result.via = "final"
             ELSE /\ alt => (a = 0 /\ events[i].error # "")
                  /\ Len(events) = s - 1 =>
                       \/ pc = "sleep"
                       \/ ~alt /\ pc = "alt_post" /\ a = 0 /\ events[i].error # ""
                              /\ env.openrouter_base # openrouter_fallback_base
                       \/ returned_by_alt
                  /\ Len(events) >= s => IsBackoffSleep(events[s], a)
                  /\ Len(events) = s => pc = "post"
                  /\ Len(events) > s =>
                       IsPrimaryPost(events[s + 1]) /\ events[s + 1].attempt = a + 1
  /\ SleepsSeparateAttempts

C15_Witness ==
  /\ pc = "done"
  /\ Len(events) = 6
  /\ events[1].error # ""
  /\ IsAltPost(events[2])
  /\ events[3].delay = 1100
  /\ events[5].delay = 2000
  /\ Answered(events[6], {503})
  /\ result.via = "final"

\* The first k requests of the call were primary attempts answered 429 or
\* 503, and request k + 1 is a primary attempt answered 200.
RetriedThenOk(k) ==
  /\ Len(Posts) >= k + 1
  /\ \A n \in 1..k : IsPrimaryPost(Posts[n]) /\ Answered(Posts[n], {429, 503})
  /\ IsPrimaryPost(Posts[k + 1]) /\ Answered(Posts[k + 1], {200})

\* C16: when the first k primary attempts (k = 0, 1, 2) were answered 429 or
\* 503 and attempt k + 1 was answered 200 with a message content or text, the
\* call has returned that content, stripped, and has sent exactly k + 1
\* requests and slept exactly k times.
C16_SuccessAfterRetries ==
  \A k \in 0..2 :
    (RetriedThenOk(k) /\ Posts[k + 1].body.id \in {"content", "text"}) =>
      /\ pc = "done"
      /\ result.kind = "return"
      /\ result.text = IF Posts[k + 1].body.id = "content"
                        THEN <<"Happy to help.">> ELSE <<"From the text field.">>
      /\ Len(Posts) = k + 1
      /\ Len(Sleeps) = k
      /\ events[Len(events)] = Posts[k + 1]
      /\ Posts[k + 1].attempt = k

C16_Witness ==
  /\ pc = "done"
  /\ RetriedThenOk(2)
  /\ Posts[1].status = 429 /\ Posts[2].status = 429
  /\ Posts[3].body.id = "content"
  /\ Len(Sleeps) = 2
  /\ calls[2].fn = "openrouter_fallback"

\* The first primary attempt failed with a connection error, and the
\* configured primary endpoint is not the fallback endpoint.
FirstAttemptFailedToConnect ==
  /\ events # <<>>
  /\ events[1].ev = "post" /\ events[1].attempt = 0 /\ events[1].error # ""
  /\ env.openrouter_base # openrouter_fallback_base

FallbackUrl == openrouter_fallback_base \o "/chat/completions"

\* C17 (as claimed): after a connection error of the first primary attempt,
\* with a primary endpoint that is not the fallback endpoint, the next event is
\* the request to the fallback endpoint, and when that request is answered
\* HTTP 200 the call has returned from that response, with no sleep and no
\* further request.
C17_FallbackSuccessEndsCallWithoutSleep ==
  FirstAttemptFailedToConnect =>
    /\ Len(events) = 1 => pc = "alt_post"
    /\ Len(events) >= 2 => events[2].ev = "post" /\ events[2].url = FallbackUrl
    /\ (Len(events) >= 2 /\ Answered(events[2], {200})) =>
         /\ Len(events) = 2
         /\ pc = "done"
         /\ result.kind = "return" /\ result.via = "response"

\* A request that is a fallback request: it went to the fallback endpoint, or
\* it follows another request with no sleep in between.
IsFallbackRequest(i) ==
  /\ events[i].ev = "post"
  /\ IsAltPost(events[i]) \/ (i > 1 /\ events[i - 1].ev = "post")

SimsOf(query) ==
  LET qv == TfidfVector(engine.vocabulary, engine.idf, query)
  IN  [i \in DOMAIN engine.faqs |-> CosineSimilarity(qv, engine.question_vectors[i])]

\* The catalog positions whose similarity is the maximum of sims.
AtMaximum(sims) == {i \in DOMAIN sims : \A j \in DOMAIN sims : sims[j] <= sims[i]}

\* C19: when several catalog questions share the maximum similarity to the
\* query and the maximum is at least the threshold, search returns the one
\* at the lowest catalog position, in whatever order the catalog lists them.
C19_TieGoesToLowestPosition ==
  (last_search.called /\ Strip(last_search.query) # <<>>) =>
    LET sims == SimsOf(last_search.query)
        top == AtMaximum(sims)
    IN  (Cardinality(top) >= 2 /\ \A i \in top : sims[i] >= engine.threshold) =>
          /\ last_search.item # None
          /\ \E k \in top :
               /\ last_search.item = engine.faqs[k]
               /\ \A i \in top : k <= i

\* The same two questions tie in the other catalog order too.
C19_Witness ==
  /\ last_search.called
  /\ Len(engine.faqs) = 3
  /\ last_search.score > 0 /\ last_search.score < 10000
  /\ last_search.item = engine.faqs[2]
  /\ engine.faqs[2].id > engine.faqs[3].id
  /\ AtMaximum(SimsOf(last_search.query)) = {2, 3}

\* The requests and sleeps of a run, in order: which endpoint, which attempt,
\* how long; the prompt, the temperature and the outcome left out.
Protocol(es) ==
  [i \in DOMAIN es |->
     [ev |-> es[i].ev, url |-> es[i].url, attempt |-> es[i].attempt, delay |-> es[i].delay]]

Stopped(st) == st.pc \in {"done", "raised"}

\* C20 (as claimed): given the same endpoint outcomes, refine_with_openrouter
\* and openrouter_fallback have sent the same requests and slept the same
\* sleeps, in the same order, and the one has stopped exactly when the other
\* has.
C20_TemplatesRunSameProtocol ==
  /\ Protocol(twin.refine.events) = Protocol(twin.fallback.events)
  /\ Stopped(twin.refine) <=> Stopped(twin.fallback)
  /\ twin.refine.attempt = twin.fallback.attempt

=============================================================================
